---- MODULE Spec2Model ----
(***************************************************************************)
(* RoadGuardProgram (src/main.py): a chat export is parsed line by line    *)
(* into reports for one target date, the reports are aggregated into a     *)
(* chronological table and a per-car summary, and both are appended to a   *)
(* JSON store that is rewritten on disk at the end of every run.           *)
(*                                                                         *)
(* A text is a sequence of characters; a character is a one-element        *)
(* string ("dalet", "yod", "vav", "het" name the Hebrew letters of the     *)
(* report marker).                                                         *)
(***************************************************************************)
EXTENDS Integers, Sequences, FiniteSets, TLC

VARIABLES
    data,          \* self.data: date -> [chronological, car_summary]
    disk,          \* the save file: absent, a complete JSON document, or a partial one
    pc,            \* "idle", "parse", "save_open", "save_write", or "down" (no process)
    lines,         \* parse_messages: the lines read from the chat file
    date,          \* the target date of the run
    i,             \* parse_messages: index of the line the for loop is at
    messages,      \* parse_messages: the reports collected so far
    inputs,        \* the correction lines typed at the prompt during the run
    chronological, \* generate_tables: the chronological table of the run
    car_summary,   \* generate_tables: the car summary of the run
    done,          \* lines, date, inputs describe the run that left the store as it is
    fresh,         \* that run created the bucket of its date
    again,         \* the current run repeats that run: same file, same date
    prevInputs,    \* when again: the corrections typed during that run
    runs           \* number of process_chat calls so far

vars == <<data, disk, pc, lines, date, i, messages, inputs, chronological,
          car_summary, done, fresh, again, prevInputs, runs>>

----------------------------------------------------------------------------
(* Bounds *)

MaxRuns == 3
MaxLines == 3

----------------------------------------------------------------------------
(* Characters and texts *)

Digit == {"0", "1", "2", "3", "4", "5", "6", "7", "8", "9"}

\* str.strip() and \S: the whitespace characters of the model's alphabet
Whitespace == {" ", "\t", "\n"}

\* the report marker of the pattern, ": <dalet yod vav vav het>: "
Marker == <<":", " ", "dalet", "yod", "vav", "vav", "het", ":", " ">>

Min(a, b) == IF a < b THEN a ELSE b

\* ord() of the characters a time string is made of
Ord(c) ==
    CASE c = "0" -> 48 [] c = "1" -> 49 [] c = "2" -> 50 [] c = "3" -> 51
      [] c = "4" -> 52 [] c = "5" -> 53 [] c = "6" -> 54 [] c = "7" -> 55
      [] c = "8" -> 56 [] c = "9" -> 57 [] c = ":" -> 58

\* s[a:b] of Python on 1-based positions a..b (empty when b < a)
Slice(s, a, b) == IF b < a THEN <<>> ELSE SubSeq(s, a, b)

\* s[-1]
Last(s) == s[Len(s)]

\* s[::-1]
Reverse(s) == [k \in 1..Len(s) |-> s[Len(s) + 1 - k]]

\* time[:5]
TimePrefix == 5
Truncate(t) == Slice(t, 1, Min(TimePrefix, Len(t)))

\* str.strip(): leading and trailing whitespace removed
Strip(s) ==
    LET keep == {k \in 1..Len(s) : s[k] \notin Whitespace}
    IN  IF keep = {} THEN <<>>
        ELSE LET a == CHOOSE k \in keep : \A m \in keep : k <= m
                 b == CHOOSE k \in keep : \A m \in keep : m <= k
             IN  SubSeq(s, a, b)

\* Python's < on strings: by code point, a proper prefix is smaller
RECURSIVE StrLess(_, _)
StrLess(a, b) ==
    IF b = <<>> THEN FALSE
    ELSE IF a = <<>> THEN TRUE
    ELSE IF Ord(Head(a)) # Ord(Head(b)) THEN Ord(Head(a)) < Ord(Head(b))
    ELSE StrLess(Tail(a), Tail(b))

----------------------------------------------------------------------------
(* The pattern of parse_messages, matched as re.match does *)

\* text s holds the literal lit at position p
Lit(s, p, lit) ==
    /\ p + Len(lit) - 1 <= Len(s)
    /\ SubSeq(s, p, p + Len(lit) - 1) = lit

\* \d+ from position p, greedy: the position after the run of digits
RECURSIVE DigitRun(_, _)
DigitRun(s, p) ==
    IF p <= Len(s) /\ s[p] \in Digit THEN DigitRun(s, p + 1) ELSE p

\* \S+ from position p, greedy: the position after the run of non-whitespace
RECURSIVE NonSpaceRun(_, _)
NonSpaceRun(s, p) ==
    IF p <= Len(s) /\ s[p] \notin Whitespace THEN NonSpaceRun(s, p + 1) ELSE p

\* .+ from position p, greedy: the position after the run of non-newline characters
RECURSIVE DotRun(_, _)
DotRun(s, p) ==
    IF p <= Len(s) /\ s[p] # "\n" THEN DotRun(s, p + 1) ELSE p

NoMatch == [matched |-> FALSE]

\* \d+ sep \d+ sep \d+ from position p: the position after it, or 0
Triple(s, p, sep) ==
    LET a == DigitRun(s, p)
        b == DigitRun(s, a + 1)
        c == DigitRun(s, b + 1)
    IN  IF /\ a > p /\ Lit(s, a, <<sep>>)
           /\ b > a + 1 /\ Lit(s, b, <<sep>>)
           /\ c > b + 1
        THEN c ELSE 0

\* "(\S+) (.+)" from position p: the end of the direction token, or 0.
\* \S+ is greedy and the character after a shorter token is no space, so
\* only the whole run can be followed by the space.
Tail2(s, p) ==
    LET e == NonSpaceRun(s, p)
    IN  IF e > p /\ Lit(s, e, <<" ">>) /\ DotRun(s, e + 1) > e + 1 THEN e ELSE 0

\* re.match(pattern, s): the five groups, or NoMatch
Match(s) ==
    LET d1 == Triple(s, 2, ".")
        t0 == d1 + 2
        t1 == Triple(s, t0, ":")
        r0 == t1 + 2
        \* (.+?) is lazy: the first marker after at least one non-newline
        \* character from which the rest of the pattern matches
        ends == {k \in (r0 + 1)..Len(s) :
                    /\ DotRun(s, r0) >= k
                    /\ Lit(s, k, Marker)
                    /\ Tail2(s, k + Len(Marker)) # 0}
    IN  IF /\ Lit(s, 1, <<"[">>)
           /\ d1 # 0 /\ Lit(s, d1, <<",", " ">>)
           /\ t1 # 0 /\ Lit(s, t1, <<"]", " ">>)
           /\ ends # {}
        THEN LET k  == CHOOSE x \in ends : \A y \in ends : x <= y
                 g0 == k + Len(Marker)
                 g1 == Tail2(s, g0)
             IN  [matched   |-> TRUE,
                  msg_date  |-> SubSeq(s, 2, d1 - 1),
                  time      |-> SubSeq(s, t0, t1 - 1),
                  reporter  |-> SubSeq(s, r0, k - 1),
                  direction |-> SubSeq(s, g0, g1 - 1),
                  car_desc  |-> SubSeq(s, g1 + 1, DotRun(s, g1 + 1) - 1)]
        ELSE NoMatch

----------------------------------------------------------------------------
(* The chat lines, correction lines and target dates the runs draw from *)

DateA == <<"1", ".", "6", ".", "2", "0", "2", "4">>
\* the same day written differently: another string
DateB == <<"0", "1", ".", "6", ".", "2", "0", "2", "4">>

Dates == {DateA, DateB}

\* "[<date>, <time>] <reporter>: <marker>: <direction> <car>"
Message(d, t, reporter, direction, car) ==
    <<"[">> \o d \o <<",", " ">> \o t \o <<"]", " ">> \o reporter
        \o Marker \o direction \o <<" ">> \o car

\* 9:05:00, one hour digit
Line9 == Message(DateA, <<"9", ":", "0", "5", ":", "0", "0">>,
                 <<"A", "b">>, <<"N">>, <<"r", "e", "d">>) \o <<"\n">>
\* 10:00:00
Line10 == Message(DateA, <<"1", "0", ":", "0", "0", ":", "0", "0">>,
                  <<"C">>, <<"S", "o">>, <<"v", "a", "n">>) \o <<"\n">>
\* 10:00:30, the same minute as Line10, another reporter, a car of two words
Line10b == <<" ">> \o Message(DateA, <<"1", "0", ":", "0", "0", ":", "3", "0">>,
                  <<"A", "b">>, <<"N">>, <<"v", " ", "2">>) \o <<"\n">>
\* a line of the other date
LineB == Message(DateB, <<"9", ":", "0", "5", ":", "0", "0">>,
                 <<"C">>, <<"N">>, <<"r", "e", "d">>) \o <<"\n">>
\* no seconds in the time: not recognized
LineBad == Message(DateA, <<"9", ":", "0", "5">>,
                   <<"C">>, <<"N">>, <<"r", "e", "d">>) \o <<"\n">>

ChatLines == {Line9, Line10, Line10b, LineB, LineBad}

\* what the user may type at the prompt: Enter, blanks, a message of
\* DateA, a line that is still not a message
FixEnter == <<>>
FixBlank == <<" ">>
FixGood == <<" ">> \o Message(DateA, <<"1", "4", ":", "2", "3", ":", "0", "5">>,
                   <<"C">>, <<"S", "o">>, <<"r", "e", "d">>)
FixBad == <<"r", "e", "d">>

Corrections == {FixEnter, FixBlank, FixGood, FixBad}

\* every chat file of at most MaxLines lines
Files == UNION {[1..n -> ChatLines] : n \in 0..MaxLines}

\* the chat files of the runs that follow one another: an empty file, a
\* file whose order by time string differs from its order by clock time
\* and from its own order, and a file with an unrecognized line, a line
\* of the other date and a recognized line
FileEmpty == <<>>
FileSort == <<Line10b, Line9, Line10>>
FileMixed == <<LineBad, LineB, Line9>>
\* two unrecognized lines after a recognized one
FileFix == <<Line9, LineBad, LineBad>>

ChatFiles == {FileEmpty, FileSort, FileMixed, FileFix}

----------------------------------------------------------------------------
(* parse_messages: what one line adds to messages *)

\* the report of a line that matched directly
DirectReport(m) ==
    [date      |-> m.msg_date,
     time      |-> Truncate(m.time),
     reporter  |-> Reverse(m.reporter),
     direction |-> Reverse(m.direction),
     car       |-> Reverse(m.car_desc)]

\* the report of a corrected line
CorrectedReport(m) ==
    [date      |-> m.msg_date,
     time      |-> m.time,
     reporter  |-> Reverse(m.reporter),
     direction |-> Reverse(m.direction),
     car       |-> Reverse(m.car_desc)]

\* a date filter that reads the day and month as numbers: leading zeros ignored
RECURSIVE NoLeadingZeros(_)
NoLeadingZeros(t) ==
    IF Len(t) >= 2 /\ t[1] = "0" /\ t[2] \in Digit THEN NoLeadingZeros(Tail(t)) ELSE t

SameDay(msg_date, d) == NoLeadingZeros(msg_date) = NoLeadingZeros(d)

\* if msg_date == date
SameDate(msg_date, d) == msg_date = d

\* an if branch without the date filter
AfterMatchAnyDate(msgs, m, d) == Append(msgs, DirectReport(m))

\* the if branch: the line matched
AfterMatch(msgs, m, d) ==
    IF SameDate(m.msg_date, d) THEN Append(msgs, DirectReport(m)) ELSE msgs

\* the else branch, after input(): typed is what the user typed
AfterPrompt(msgs, typed, d) ==
    LET corrected_line == Strip(typed)
        corrected_match == Match(corrected_line)
    IN  IF corrected_line # <<>> /\ corrected_match.matched
           /\ SameDate(corrected_match.msg_date, d)
        THEN Append(msgs, CorrectedReport(corrected_match))
        ELSE msgs

----------------------------------------------------------------------------
(* generate_tables *)

\* a sort by the time of day, hours and minutes read as numbers
RECURSIVE Number(_)
Number(t) == IF t = <<>> THEN 0 ELSE 10 * Number(SubSeq(t, 1, Len(t) - 1)) + Ord(Last(t)) - 48

Clock(t) ==
    LET h == DigitRun(t, 1)
        m == DigitRun(t, h + 1)
    IN  60 * Number(SubSeq(t, 1, h - 1)) + Number(SubSeq(t, h + 1, m - 1))

RECURSIVE ChronologicalByClock(_)
ChronologicalByClock(msgs) ==
    IF msgs = <<>> THEN <<>>
    ELSE LET n == Len(msgs)
             s == ChronologicalByClock(SubSeq(msgs, 1, n - 1))
             x == msgs[n]
             k == Cardinality({j \in 1..Len(s) : Clock(s[j].time) <= Clock(x.time)})
         IN  SubSeq(s, 1, k) \o <<x>> \o SubSeq(s, k + 1, Len(s))

\* sorted(messages, key=lambda x: x["time"]): stable, so a report goes
\* after the reports before it whose time is not greater
RECURSIVE Chronological(_)
Chronological(msgs) ==
    IF msgs = <<>> THEN <<>>
    ELSE LET n == Len(msgs)
             s == Chronological(SubSeq(msgs, 1, n - 1))
             x == msgs[n]
             k == Cardinality({j \in 1..Len(s) : ~StrLess(x.time, s[j].time)})
         IN  SubSeq(s, 1, k) \o <<x>> \o SubSeq(s, k + 1, Len(s))

CarEntry(msg) ==
    [time |-> msg.time, reporter |-> msg.reporter, direction |-> msg.direction]

\* a defaultdict(list) is the mapping from the keys appended to so far
EmptyDict == [k \in {} |-> <<>>]

\* d[key].append(x) on a defaultdict(list), d[key].extend(xs) after
\* "if key not in d: d[key] = []"
Extend(dict, key, xs) ==
    IF key \in DOMAIN dict THEN [dict EXCEPT ![key] = @ \o xs]
    ELSE dict @@ (key :> xs)

\* for msg in msgs: car_summary[msg["car"]].append({...})
RECURSIVE GroupByCar(_)
GroupByCar(msgs) ==
    IF msgs = <<>> THEN EmptyDict
    ELSE LET n == Len(msgs)
         IN  Extend(GroupByCar(SubSeq(msgs, 1, n - 1)), msgs[n].car,
                    <<CarEntry(msgs[n])>>)

\* a car summary made of the sorted table instead of messages
CarSummarySorted(msgs) == GroupByCar(Chronological(msgs))

\* the car summary table of generate_tables
CarSummary(msgs) == GroupByCar(msgs)

----------------------------------------------------------------------------
(* process_chat: the merge into self.data *)

EmptyBucket == [chronological |-> <<>>, car_summary |-> EmptyDict]

\* a merge that gives a car its entries only when the car is new to the bucket
RECURSIVE ExtendAllNew(_, _, _)
ExtendAllNew(dict, cs, cars) ==
    IF cars = {} THEN dict
    ELSE LET car == CHOOSE c \in cars : TRUE
             next == IF car \in DOMAIN dict THEN dict ELSE dict @@ (car :> cs[car])
         IN  ExtendAllNew(next, cs, cars \ {car})

\* for car, details in car_summary.items(): ... extend(details)
RECURSIVE ExtendAll(_, _, _)
ExtendAll(dict, cs, cars) ==
    IF cars = {} THEN dict
    ELSE LET car == CHOOSE c \in cars : TRUE
         IN  ExtendAll(Extend(dict, car, cs[car]), cs, cars \ {car})

\* a merge that puts the run's tables in the place of the bucket
MergeBucketReplace(bucket, chron, cs) ==
    [chronological |-> chron, car_summary |-> cs]

MergeBucket(bucket, chron, cs) ==
    [chronological |-> bucket.chronological \o chron,
     car_summary   |-> ExtendAll(bucket.car_summary, cs, DOMAIN cs)]

\* a merge that makes no bucket for a run without reports
MergeStoreUnlessEmpty(store, d, chron, cs) ==
    IF chron = <<>> THEN store
    ELSE LET with == IF d \in DOMAIN store THEN store ELSE store @@ (d :> EmptyBucket)
         IN  [with EXCEPT ![d] = MergeBucket(@, chron, cs)]

MergeStore(store, d, chron, cs) ==
    LET with == IF d \in DOMAIN store THEN store ELSE store @@ (d :> EmptyBucket)
    IN  [with EXCEPT ![d] = MergeBucket(@, chron, cs)]

----------------------------------------------------------------------------
(* The save file *)

Absent == [kind |-> "absent", doc |-> EmptyDict]
\* opened for writing and not yet written in full: empty or a proper
\* prefix of the document, which json.load rejects
Partial == [kind |-> "partial", doc |-> EmptyDict]
\* json.dump writes and json.load reads back the mapping of strings to
\* lists and mappings of strings as it is, keys in their order, text unescaped
Json(store) == [kind |-> "json", doc |-> store]

----------------------------------------------------------------------------
(* The program *)

Init ==
    /\ data = EmptyDict
    /\ disk = Absent
    /\ pc = "idle"
    /\ lines = <<>>
    /\ date = DateA
    /\ i = 1
    /\ messages = <<>>
    /\ inputs = <<>>
    /\ chronological = <<>>
    /\ car_summary = EmptyDict
    /\ done = FALSE
    /\ fresh = FALSE
    /\ again = FALSE
    /\ prevInputs = <<>>
    /\ runs = 0

\* process_chat(chat_file, date) up to the for loop of parse_messages
ReadChat(file, d) ==
    /\ pc = "idle"
    /\ runs < MaxRuns
    /\ pc' = "parse"
    /\ lines' = file
    /\ date' = d
    /\ i' = 1
    /\ messages' = <<>>
    /\ inputs' = <<>>
    /\ again' = (done /\ file = lines /\ d = date)
    /\ prevInputs' = IF again' THEN inputs ELSE <<>>
    /\ runs' = runs + 1
    /\ UNCHANGED <<data, disk, chronological, car_summary, done, fresh>>

\* one iteration of the for loop, the line matches
ParseMatched ==
    /\ pc = "parse"
    /\ i <= Len(lines)
    /\ LET match == Match(Strip(lines[i]))
       IN  /\ match.matched
           /\ messages' = AfterMatch(messages, match, date)
    /\ i' = i + 1
    /\ UNCHANGED <<data, disk, pc, lines, date, inputs, chronological,
                   car_summary, done, fresh, again, prevInputs, runs>>

\* a prompt that asks again for the same line until what is typed matches
ParsePromptAgain(typed) ==
    /\ pc = "parse"
    /\ i <= Len(lines)
    /\ ~Match(Strip(lines[i])).matched
    /\ inputs' = Append(inputs, typed)
    /\ messages' = AfterPrompt(messages, typed, date)
    /\ i' = IF Strip(typed) # <<>> /\ ~Match(Strip(typed)).matched THEN i ELSE i + 1
    /\ UNCHANGED <<data, disk, pc, lines, date, chronological, car_summary,
                   done, fresh, again, prevInputs, runs>>

\* one iteration of the for loop, the line does not match: the user is
\* asked once and types one line
ParsePrompt(typed) ==
    /\ pc = "parse"
    /\ i <= Len(lines)
    /\ ~Match(Strip(lines[i])).matched
    /\ inputs' = Append(inputs, typed)
    /\ messages' = AfterPrompt(messages, typed, date)
    /\ i' = i + 1
    /\ UNCHANGED <<data, disk, pc, lines, date, chronological, car_summary,
                   done, fresh, again, prevInputs, runs>>

\* the loop is over: generate_tables and the merge into self.data
Merge ==
    /\ pc = "parse"
    /\ i > Len(lines)
    /\ chronological' = Chronological(messages)
    /\ car_summary' = CarSummary(messages)
    /\ data' = MergeStore(data, date, chronological', car_summary')
    /\ done' = TRUE
    /\ fresh' = (date \notin DOMAIN data)
    /\ pc' = "save_open"
    /\ UNCHANGED <<disk, lines, date, i, messages, inputs, again, prevInputs, runs>>

\* save_data: open(self.save_file, "w") truncates the file
SaveOpen ==
    /\ pc = "save_open"
    /\ disk' = Partial
    /\ pc' = "save_write"
    /\ UNCHANGED <<data, lines, date, i, messages, inputs, chronological,
                   car_summary, done, fresh, again, prevInputs, runs>>

\* save_data: json.dump and the close; process_chat returns
SaveDump ==
    /\ pc = "save_write"
    /\ disk' = Json(data)
    /\ pc' = "idle"
    /\ UNCHANGED <<data, lines, date, i, messages, inputs, chronological,
                   car_summary, done, fresh, again, prevInputs, runs>>

\* the process is killed during a run: its memory is lost
Crash ==
    /\ pc \in {"parse", "save_open", "save_write"}
    /\ pc' = "down"
    /\ lines' = <<>>
    /\ date' = DateA
    /\ i' = 1
    /\ messages' = <<>>
    /\ inputs' = <<>>
    /\ chronological' = <<>>
    /\ car_summary' = EmptyDict
    /\ done' = FALSE
    /\ fresh' = FALSE
    /\ again' = FALSE
    /\ prevInputs' = <<>>
    /\ data' = EmptyDict
    /\ UNCHANGED <<disk, runs>>

\* the program ends after a run
Exit ==
    /\ pc = "idle"
    /\ pc' = "down"
    /\ UNCHANGED <<data, disk, lines, date, i, messages, inputs, chronological,
                   car_summary, done, fresh, again, prevInputs, runs>>

\* __init__: load_data reads the document, or starts empty without a file
Load ==
    /\ pc = "down"
    /\ disk.kind # "partial"
    /\ data' = IF disk.kind = "absent" THEN EmptyDict ELSE disk.doc
    /\ pc' = "idle"
    /\ UNCHANGED <<disk, lines, date, i, messages, inputs, chronological,
                   car_summary, done, fresh, again, prevInputs, runs>>

Next ==
    \/ \E file \in ChatFiles, d \in Dates : ReadChat(file, d)
    \/ ParseMatched
    \/ \E typed \in Corrections : ParsePrompt(typed)
    \/ Merge
    \/ SaveOpen
    \/ SaveDump
    \/ Crash
    \/ Exit
    \/ Load

\* up to MaxRuns runs, one after another, of the chat files ChatFiles
Spec == Init /\ [][Next]_vars

\* one run of any chat file of at most MaxLines lines
NextParse ==
    \/ \E file \in Files, d \in Dates : runs = 0 /\ ReadChat(file, d)
    \/ ParseMatched
    \/ \E typed \in Corrections : ParsePrompt(typed)
    \/ Merge
    \/ SaveOpen
    \/ SaveDump
    \/ Crash
    \/ Exit
    \/ Load

SpecParse == Init /\ [][NextParse]_vars

----------------------------------------------------------------------------
(* Vocabulary of the properties *)

\* the step in which process_chat aggregates and merges
MergeStep == pc = "parse" /\ pc' = "save_open"

\* one iteration of the for loop of parse_messages
LineStep == pc = "parse" /\ pc' = "parse" /\ i' # i

\* the tables of the last run are there, with the messages they were made of
TablesReady == done /\ pc \in {"save_open", "save_write", "idle"}

BucketOf(store, d) == IF d \in DOMAIN store THEN store[d] ELSE EmptyBucket

SeqOf(dict, key) == IF key \in DOMAIN dict THEN dict[key] ELSE <<>>

Recognized(line) == Match(Strip(line)).matched

\* the number of times e occurs in s
Count(s, e) == Cardinality({k \in 1..Len(s) : s[k] = e})

Range(s) == {s[k] : k \in 1..Len(s)}

Perms(n) ==
    {f \in [1..n -> 1..n] : \A a, b \in 1..n : f[a] = f[b] => a = b}

\* the entries of msgs for one car, in the order of msgs
RECURSIVE EntriesOf(_, _)
EntriesOf(msgs, car) ==
    IF msgs = <<>> THEN <<>>
    ELSE IF Head(msgs).car = car
         THEN <<CarEntry(Head(msgs))>> \o EntriesOf(Tail(msgs), car)
         ELSE EntriesOf(Tail(msgs), car)

\* "H:M": digits, one colon, digits
IsHourMinute(t) ==
    \E c \in 2..(Len(t) - 1) :
        /\ t[c] = ":"
        /\ \A k \in 1..Len(t) : k # c => t[k] \in Digit

----------------------------------------------------------------------------
(* C1: the store is append-only.  The merge of a run for date d leaves the
   bucket's chronological sequence equal to its value before the run
   followed by the run's chronological table, and every car's sequence
   equal to its previous value followed by the run's entries for that car;
   no other step of a running program changes the store.  A run that
   repeats the run before it (same file, same date, same corrections
   typed), when that run created the bucket, doubles the number of
   chronological entries and of entries of every car. *)
C1_AppendOnly ==
    [][/\ MergeStep =>
            LET old == BucketOf(data, date)
                new == BucketOf(data', date)
            IN  /\ date \in DOMAIN data'
                /\ new.chronological = old.chronological \o chronological'
                /\ \A car \in DOMAIN new.car_summary \cup DOMAIN old.car_summary
                                \cup DOMAIN car_summary' :
                       SeqOf(new.car_summary, car)
                           = SeqOf(old.car_summary, car) \o SeqOf(car_summary', car)
       /\ (MergeStep /\ again /\ fresh /\ inputs = prevInputs) =>
            /\ Len(data'[date].chronological) = 2 * Len(data[date].chronological)
            /\ DOMAIN data'[date].car_summary = DOMAIN data[date].car_summary
            /\ \A car \in DOMAIN data[date].car_summary :
                   Len(data'[date].car_summary[car])
                       = 2 * Len(data[date].car_summary[car])
       /\ (~MergeStep /\ pc # "down" /\ pc' # "down") => data' = data
      ]_vars

\* a run has just repeated the run before it and doubled a bucket of
\* at least two reports, two of them of one car
C1_Witness ==
    /\ pc = "save_open" /\ again /\ inputs = prevInputs
    /\ Len(chronological) >= 2
    /\ Len(data[date].chronological) = 2 * Len(chronological)
    /\ \E car \in DOMAIN car_summary : Len(data[date].car_summary[car]) >= 4

(* C2: the date filter.  A line that matches the pattern, directly or as
   corrected at the prompt, adds a report, whose date is the target date,
   if and only if the date it carries is the same string as the target
   date; otherwise messages is left as it was.  So every report of the
   chronological table has the target date. *)
C2_DateFilter ==
    [][/\ LineStep =>
            LET direct == Match(Strip(lines[i]))
                match  == IF direct.matched THEN direct
                          ELSE Match(Strip(Last(inputs')))
                added  == /\ Len(messages') = Len(messages) + 1
                          /\ SubSeq(messages', 1, Len(messages)) = messages
                          /\ Last(messages').date = date
            IN  /\ match.matched => (added <=> match.msg_date = date)
                /\ added \/ messages' = messages
       /\ MergeStep =>
            /\ Len(chronological') = Len(messages)
            /\ \A k \in 1..Len(chronological') : chronological'[k].date = date
      ]_vars

\* a run for DateA has kept a line of DateA and left out a line of DateB,
\* the same day written with a leading zero
C2_Witness ==
    /\ pc = "parse" /\ date = DateA /\ i = 3
    /\ lines[1] = LineB /\ lines[2] = Line9
    /\ Len(messages) = 1 /\ messages[1].date = DateA

(* C3: the chronological table is a permutation of the reports, ascending
   by the comparison of the time strings character by character, and two
   reports with the same time string keep the order they have in the
   file. *)
C3_Chronological ==
    TablesReady =>
        /\ Len(chronological) = Len(messages)
        /\ \E f \in Perms(Len(messages)) :
               /\ \A k \in 1..Len(messages) : chronological[k] = messages[f[k]]
               /\ \A k, l \in 1..Len(messages) :
                      k < l =>
                          /\ ~StrLess(chronological[l].time, chronological[k].time)
                          /\ chronological[k].time = chronological[l].time
                                 => f[k] < f[l]

\* the table of a file with 10:00:30, 9:05:00, 10:00:00 in that order: the
\* two reports of 10:00 first, in file order, then the report of 9:05
C3_Witness ==
    /\ TablesReady
    /\ lines = <<Line10b, Line9, Line10>>
    /\ Len(chronological) = 3
    /\ chronological[1] = messages[1]
    /\ chronological[2] = messages[3]
    /\ chronological[3] = messages[2]

(* C4: the car summary groups the reports by car: its keys are the cars of
   the reports, the sequence of a car holds the {time, reporter, direction}
   entries of the reports of that car, each once, in the order of the file,
   and no sequence is empty. *)
C4_CarSummary ==
    TablesReady =>
        /\ DOMAIN car_summary = {m.car : m \in Range(messages)}
        /\ \A car \in DOMAIN car_summary :
               /\ car_summary[car] = EntriesOf(messages, car)
               /\ car_summary[car] # <<>>
               /\ \A k \in 1..Len(car_summary[car]) :
                      DOMAIN car_summary[car][k] = {"time", "reporter", "direction"}

\* a car with two entries whose file order is not their order in the
\* chronological table, beside another car
C4_Witness ==
    /\ TablesReady
    /\ Cardinality(DOMAIN car_summary) = 2
    /\ \E car \in DOMAIN car_summary :
           /\ Len(car_summary[car]) = 2
           /\ StrLess(car_summary[car][2].time, car_summary[car][1].time)

(* C5: an unrecognized line is handled in one pass with one retry.  Every
   iteration of the loop moves to the next line; an unrecognized line asks
   for exactly one line of input, a recognized line for none; when what is
   typed is empty or is not recognized either, no report is added.  The
   loop ends after the last line, having asked once for each unrecognized
   line of the file. *)
C5_SingleRetry ==
    [][/\ (pc = "parse" /\ i <= Len(lines) /\ pc' # "down") =>
            /\ pc' = "parse"
            /\ i' = i + 1
            /\ lines' = lines
            /\ IF Recognized(lines[i])
               THEN inputs' = inputs
               ELSE /\ Len(inputs') = Len(inputs) + 1
                    /\ SubSeq(inputs', 1, Len(inputs)) = inputs
                    /\ (Strip(Last(inputs')) = <<>> \/ ~Recognized(Last(inputs')))
                           => messages' = messages
       /\ MergeStep =>
            /\ i = Len(lines) + 1
            /\ Len(inputs)
                   = Cardinality({k \in 1..Len(lines) : ~Recognized(lines[k])})
      ]_vars

\* an unrecognized first line was answered with Enter and dropped, and the
\* line after it gave its report
C5_Witness ==
    /\ pc = "parse" /\ i = 3
    /\ lines[1] = LineBad /\ inputs = <<FixEnter>>
    /\ Recognized(lines[2])
    /\ Len(messages) = 1

(* C6: saving is atomic: a save file that holds a complete document holds
   one after every step, that of before the save or the new one, never an
   empty or partial one, and when process_chat returns it holds the store
   in memory. *)
C6_AtomicSave ==
    [][/\ disk.kind = "json" => disk'.kind = "json"
       /\ (pc = "save_write" /\ pc' = "idle") => disk' = Json(data')
      ]_vars

(* C7: every report has its time truncated to "H:M", from a line that
   matched directly or from a corrected line, and its reporter, direction
   and car are the character reversal of the matched text. *)
C7_TimeHourMinute ==
    [][LineStep =>
            LET direct == Match(Strip(lines[i]))
                match  == IF direct.matched THEN direct
                          ELSE Match(Strip(Last(inputs')))
            IN  Len(messages') > Len(messages) =>
                    /\ IsHourMinute(Last(messages').time)
                    /\ Last(messages').reporter = Reverse(match.reporter)
                    /\ Last(messages').direction = Reverse(match.direction)
                    /\ Last(messages').car = Reverse(match.car_desc)
      ]_vars

(* C8 as stated: every entry of a chronological sequence of the store
   carries exactly time, reporter, direction and car. *)
C8_NoDateField ==
    \A d \in DOMAIN data :
        \A k \in 1..Len(data[d].chronological) :
            DOMAIN data[d].chronological[k]
                = {"time", "reporter", "direction", "car"}

(* C8 as amended: every entry of a chronological sequence of the store is
   a whole report: it carries exactly date, time, reporter, direction and
   car, and its date is the date of its bucket. *)
C8_WholeReport ==
    \A d \in DOMAIN data :
        \A k \in 1..Len(data[d].chronological) :
            /\ DOMAIN data[d].chronological[k]
                   = {"date", "time", "reporter", "direction", "car"}
            /\ data[d].chronological[k].date = d

\* both buckets hold reports, after runs for both dates
C8_Witness ==
    /\ pc = "idle"
    /\ DOMAIN data = Dates
    /\ \A d \in Dates : Len(data[d].chronological) >= 1

(* C9: the two views of a date agree: the chronological sequence has as
   many entries as the car summary has over all cars, the cars of the
   summary are the cars of the chronological entries, and for every car
   the (time, reporter, direction) entries under it are, as a multiset,
   those of the chronological entries of that car. *)
C9_ViewsAgree ==
    \A d \in DOMAIN data :
        LET chron == data[d].chronological
            cs    == data[d].car_summary
            total[cars \in SUBSET DOMAIN cs] ==
                IF cars = {} THEN 0
                ELSE LET car == CHOOSE c \in cars : TRUE
                     IN  Len(cs[car]) + total[cars \ {car}]
        IN  /\ Len(chron) = total[DOMAIN cs]
            /\ DOMAIN cs = {m.car : m \in Range(chron)}
            /\ \A car \in DOMAIN cs :
                   \A e \in Range(cs[car]) \cup Range(EntriesOf(chron, car)) :
                       Count(cs[car], e) = Count(EntriesOf(chron, car), e)

\* after two runs that added reports of one car to one bucket, whose
\* chronological order is not the order under the car
C9_Witness ==
    /\ pc = "idle" /\ runs >= 2
    /\ \E d \in DOMAIN data :
           \E car \in DOMAIN data[d].car_summary :
               /\ Len(data[d].car_summary[car]) >= 3
               /\ Cardinality(DOMAIN data[d].car_summary) >= 2
               /\ data[d].car_summary[car] # EntriesOf(data[d].chronological, car)

(* C10: a run for date d changes the bucket of d alone: no bucket of
   another date is created, removed or changed, and the bucket of d is
   there after the merge, created empty when it was not there and the run
   has no report. *)
C10_OtherDatesKept ==
    [][MergeStep =>
            /\ DOMAIN data' = DOMAIN data \cup {date}
            /\ \A d \in DOMAIN data : d # date => data'[d] = data[d]
            /\ (date \notin DOMAIN data /\ messages = <<>>)
                   => data'[date] = EmptyBucket
      ]_vars

\* a run without a report has created an empty bucket beside the bucket
\* of the other date, which holds reports
C10_Witness ==
    /\ pc = "idle" /\ fresh /\ messages = <<>>
    /\ data[date] = EmptyBucket
    /\ \E d \in DOMAIN data : d # date /\ Len(data[d].chronological) >= 1

====
